---- MODULE Spec2Model ----
(***************************************************************************)
(* A model of OELP_Word2/preprocessor.py: the Preprocessor class that      *)
(* turns a batch of (word image, ground-truth text) pairs into normalised  *)
(* tensors and CTC-safe labels.                                            *)
(*                                                                         *)
(* Data representation                                                     *)
(*   text      a sequence of one-character strings                         *)
(*   array     a numpy array: [shape |-> <<rows, cols>>, dtype, den, px]   *)
(*             with px[r][c] (0-based) the numerator of the element over   *)
(*             the common denominator den, so that v/255 - 0.5 is the      *)
(*             exact rational (2v - 255)/510                               *)
(*   heap      the sequence of allocated arrays; an image is a reference   *)
(*             (an index of heap), None is the reference 0                 *)
(*   batch     [imgs |-> refs, gt_texts |-> texts, batch_size |-> n]       *)
(*                                                                         *)
(* np.float (line 99) is read as the alias of float it was up to           *)
(* NumPy 1.23; assert statements are read as executed (no python -O).      *)
(***************************************************************************)
EXTENDS Integers, Sequences, FiniteSets, TLC

VARIABLES
    pc,        \* "new" | "ready" | "failed" | "done" | "fn" | "fn_done"
    args,      \* the arguments given to Preprocessor.__init__
    self,      \* the Preprocessor's fields
    heap,      \* the arrays allocated so far
    batch,     \* the caller's batch object
    input0,    \* what the caller's batch and its pixels were before the call
    line,      \* the batch entering normalisation (process_batch's local batch)
    rand,      \* the values random.randint returned during the last call
    rng,       \* the number of random.randint calls made so far
    out,       \* the batch process_batch returned
    err,       \* the exception the last call raised, "none" if it returned
    calls,     \* the number of process_batch calls made on the batch
    fn         \* the frame of a directly called function (function-level specs)

vars == <<pc, args, self, heap, batch, input0, line, rand, rng, out, err, calls, fn>>

(***************************************************************************)
(* Bounds of the model and constants of the program                        *)
(***************************************************************************)
MaxBatch == 2          \* batch sizes 0..MaxBatch
MaxLen == 4            \* texts of up to MaxLen characters (SpecTruncate)
MaxCap == 10           \* max_text_len up to MaxCap (SpecTruncate)
MaxNeg == 2            \* max_text_len down to -MaxNeg (SpecTruncate)
MaxPixels == 4         \* images of up to MaxPixels pixels (SpecImg)
MaxCalls == 2          \* process_batch calls on one batch (SpecRepeat)

default_word_sep == 30
default_num_words == 5
NumWordsMin == 1
NumWordsMax == 8
SepMin == 20
SepMax == 50

None == 0
Alphabet == {"a", "b", "c"}
PixelSamples == {0, 128, 255}
SepSamples == {SepMin, SepMax}
ImgSizeArgs == {<<5, 2>>, <<3, 1>>}
PaddingArgs == {0, 1}

Min(a, b) == IF a < b THEN a ELSE b
Max(a, b) == IF a > b THEN a ELSE b

(***************************************************************************)
(* Arrays                                                                  *)
(***************************************************************************)
Rows(a) == a.shape[1]
Cols(a) == a.shape[2]

\* np.zeros(shape): a float array of zeros
np_zeros(shape) ==
    [shape |-> shape, dtype |-> "float", den |-> 1,
     px |-> [r \in 0..(shape[1] - 1) |-> [c \in 0..(shape[2] - 1) |-> 0]]]

\* np.ones([h, w], np.uint8) * 255
np_ones_255(h, w) ==
    [shape |-> <<h, w>>, dtype |-> "uint8", den |-> 1,
     px |-> [r \in 0..(h - 1) |-> [c \in 0..(w - 1) |-> 255]]]

\* img.astype(np.float): a new array with the same elements
astype_float(a) == [a EXCEPT !.dtype = "float"]

\* process_img with the transposition left out
cv2_transpose_skipped(a) == a

\* cv2.transpose(img)
cv2_transpose(a) ==
    [a EXCEPT !.shape = <<Cols(a), Rows(a)>>,
              !.px = [r \in 0..(Cols(a) - 1) |-> [c \in 0..(Rows(a) - 1) |-> a.px[c][r]]]]

\* img / 255 - 0.5 on exact rationals: (n/d)/255 - 1/2 = (2n - 255d)/(510d)
rescale(a) ==
    [a EXCEPT !.den = 510 * a.den,
              !.px = [r \in 0..(Rows(a) - 1) |->
                        [c \in 0..(Cols(a) - 1) |-> 2 * a.px[r][c] - 255 * a.den]]]

(***************************************************************************)
(* Preprocessor.__init__                                                   *)
(***************************************************************************)
CtorArgs ==
    [img_size : ImgSizeArgs, padding : PaddingArgs, dynamic_width : BOOLEAN,
     data_augmentation : BOOLEAN, line_mode : BOOLEAN]

NoSelf ==
    [img_size |-> <<0, 0>>, padding |-> 0, dynamic_width |-> FALSE,
     data_augmentation |-> FALSE, line_mode |-> FALSE]

\* __init__ with its second assert statement left out
init_asserts_first_only(a) == ~(a.dynamic_width /\ a.data_augmentation)

\* the two assert statements of __init__
init_asserts(a) ==
    /\ ~(a.dynamic_width /\ a.data_augmentation)
    /\ ~(a.padding > 0 /\ ~a.dynamic_width)

ValidArgs == {a \in CtorArgs : init_asserts(a)}

(***************************************************************************)
(* Preprocessor._truncate_label                                            *)
(***************************************************************************)
RECURSIVE truncate_loop_flat(_, _, _, _)
\* the for loop with a repeated letter costing 1 like any other
truncate_loop_flat(text, max_text_len, i, cost) ==
    IF i >= Len(text) THEN text
    ELSE IF cost + 1 > max_text_len THEN SubSeq(text, 1, i)
    ELSE truncate_loop_flat(text, max_text_len, i + 1, cost + 1)

RECURSIVE truncate_loop(_, _, _, _)
\* the for loop from index i (0-based) on, with the cost accumulated so far
truncate_loop(text, max_text_len, i, cost) ==
    IF i >= Len(text) THEN text
    ELSE LET c == IF i # 0 /\ text[i + 1] = text[i] THEN cost + 2 ELSE cost + 1
         IN  IF c > max_text_len THEN SubSeq(text, 1, i)
             ELSE truncate_loop(text, max_text_len, i + 1, c)

truncate_label(text, max_text_len) == truncate_loop(text, max_text_len, 0, 0)

(***************************************************************************)
(* Preprocessor.process_img                                                *)
(***************************************************************************)
\* the array process_img returns for the array (or None) it is given
process_img_value(slf, hp, img) ==
    LET img1 == IF img = None
                THEN np_zeros(<<slf.img_size[2], slf.img_size[1]>>)
                ELSE hp[img]
        img2 == astype_float(img1)
        img3 == cv2_transpose(img2)
    IN  rescale(img3)

\* process_img normalising the array it is given in place (astype(copy=False),
\* in-place arithmetic) instead of allocating the result
process_img_in_place(slf, hp, img) ==
    IF img = None
    THEN [heap |-> Append(hp, process_img_value(slf, hp, img)), ref |-> Len(hp) + 1]
    ELSE [heap |-> [hp EXCEPT ![img] = process_img_value(slf, hp, img)], ref |-> img]

\* process_img on the heap: the result is a newly allocated array
process_img(slf, hp, img) ==
    [heap |-> Append(hp, process_img_value(slf, hp, img)), ref |-> Len(hp) + 1]

(***************************************************************************)
(* Preprocessor._simulate_text_line                                        *)
(*                                                                         *)
(* A draw d = [num_words, seps] holds the values the two conditional        *)
(* expressions take while one line is built: num_words (line 56) and       *)
(* curr_word_sep (line 69) for every j with j + 1 < num_words.  With data  *)
(* augmentation they are what random.randint(1, 8) and                     *)
(* random.randint(20, 50) return (the value drawn for the last j is never  *)
(* used: it only advances the generator); without, they are the defaults   *)
(* and nothing is drawn.                                                   *)
(***************************************************************************)
\* the draws with data augmentation always on
LineDraws_always_random(slf, nws) ==
    UNION {{[num_words |-> n, seps |-> s] : s \in [1..(n - 1) -> SepSamples]} : n \in nws}

\* the draws of one line, the random word counts explored being nws
LineDraws(slf, nws) ==
    IF slf.data_augmentation
    THEN UNION {{[num_words |-> n, seps |-> s] : s \in [1..(n - 1) -> SepSamples]} : n \in nws}
    ELSE {[num_words |-> default_num_words,
           seps |-> [j \in 1..(default_num_words - 1) |-> default_word_sep]]}

\* ' '.join(texts)
RECURSIVE join_space(_)
join_space(texts) ==
    IF Len(texts) = 0 THEN <<>>
    ELSE IF Len(texts) = 1 THEN texts[1]
    ELSE texts[1] \o <<" ">> \o join_space(Tail(texts))

\* the selection without the offset of the batch element
sel_index_no_offset(b, i, j) == (j % b.batch_size) + 1

\* (i + j) % batch.batch_size, as an index of a TLA+ sequence
sel_index(b, i, j) == ((i + j) % b.batch_size) + 1

\* line 59
curr_gt_of(b, i, num_words) ==
    join_space([j1 \in 1..num_words |-> b.gt_texts[sel_index(b, i, j1 - 1)]])

RECURSIVE select_loop(_, _, _, _, _, _, _)
\* lines 67-75 from word j on; acc holds sel_imgs, word_seps, h, w and n_rand,
\* the number of random.randint calls the line has made
select_loop(slf, hp, b, i, d, j, acc) ==
    IF j >= d.num_words THEN acc
    ELSE LET curr_sel_img == b.imgs[sel_index(b, i, j)]
             drawn == acc.n_rand + (IF slf.data_augmentation THEN 1 ELSE 0)
         IN  IF curr_sel_img = None
             THEN [acc EXCEPT !.err = "AttributeError", !.n_rand = drawn]
             ELSE LET more == j + 1 < d.num_words
                      sep == IF more THEN d.seps[j + 1] ELSE 0
                  IN  select_loop(slf, hp, b, i, d, j + 1,
                        [err |-> "none", n_rand |-> drawn,
                         sel_imgs |-> Append(acc.sel_imgs, curr_sel_img),
                         word_seps |-> IF more THEN Append(acc.word_seps, sep)
                                       ELSE acc.word_seps,
                         h |-> Max(acc.h, Rows(hp[curr_sel_img])),
                         w |-> acc.w + Cols(hp[curr_sel_img]) + sep])

\* the paste with the vertical centring forgotten: the window starts at row 0
paste_at_top(target, img, y, x) ==
    [target EXCEPT !.px =
        [r \in 0..(Rows(target) - 1) |->
            IF r < Rows(img)
            THEN [c \in x..(x + Cols(img) - 1) |-> img.px[r][c - x]] @@ target.px[r]
            ELSE target.px[r]]]

\* target[y:y + rows, x:x + cols] = img: the elements of the window are
\* overwritten with copies of img's, the others are kept
paste(target, img, y, x) ==
    [target EXCEPT !.px =
        [r \in 0..(Rows(target) - 1) |->
            IF y <= r /\ r < y + Rows(img)
            THEN [c \in x..(x + Cols(img) - 1) |-> img.px[r - y][c - x]] @@ target.px[r]
            ELSE target.px[r]]]

RECURSIVE paste_loop(_, _, _, _, _)
\* lines 80-84 from the k-th pair of zip(sel_imgs, word_seps) on
paste_loop(hp, sel, k, x, target) ==
    IF k > Min(Len(sel.sel_imgs), Len(sel.word_seps))
    THEN [err |-> "none", x |-> x, target |-> target]
    ELSE LET img == hp[sel.sel_imgs[k]]
             x1 == x + sel.word_seps[k]
             y == (sel.h - Rows(img)) \div 2
         IN  IF y + Rows(img) > Rows(target) \/ x1 + Cols(img) > Cols(target)
             THEN [err |-> "ValueError", x |-> x1, target |-> target]
             ELSE paste_loop(hp, sel, k + 1, x1 + Cols(img), paste(target, img, y, x1))

\* the frame of one iteration once the words are pasted (lines 78-87)
line_frame(sel, num_words, curr_gt, p) ==
    [err |-> p.err, n_rand |-> sel.n_rand, num_words |-> num_words, curr_gt |-> curr_gt,
     sel_imgs |-> sel.sel_imgs, word_seps |-> sel.word_seps,
     h |-> sel.h, w |-> sel.w, x |-> p.x, target |-> p.target]

\* lines 77-87 for the words selected
paste_selected(hp, sel, num_words, curr_gt) ==
    IF sel.err # "none"
    THEN line_frame(sel, num_words, curr_gt,
                    [err |-> sel.err, x |-> 0, target |-> np_zeros(<<0, 0>>)])
    ELSE line_frame(sel, num_words, curr_gt,
                    paste_loop(hp, sel, 1, 0, np_ones_255(sel.h, sel.w)))

\* one iteration of the loop over the batch elements (lines 55-87)
simulate_line(slf, hp, b, i, d) ==
    paste_selected(hp,
        select_loop(slf, hp, b, i, d, 0,
            [err |-> "none", n_rand |-> IF slf.data_augmentation THEN 1 ELSE 0,
             sel_imgs |-> <<>>, word_seps |-> <<0>>, h |-> 0, w |-> 0]),
        d.num_words,
        curr_gt_of(b, i, d.num_words))

\* lines 60 and 87: the line built joins the results
append_line(acc, ln) ==
    IF ln.err # "none"
    THEN [acc EXCEPT !.err = ln.err, !.n_rand = acc.n_rand + ln.n_rand]
    ELSE [err |-> "none", n_rand |-> acc.n_rand + ln.n_rand,
          heap |-> Append(acc.heap, ln.target),
          res_imgs |-> Append(acc.res_imgs, Len(acc.heap) + 1),
          res_gt_texts |-> Append(acc.res_gt_texts, ln.curr_gt)]

RECURSIVE simulate_lines(_, _, _, _, _)
\* the loop over the batch elements from element i on (lines 54-87)
simulate_lines(slf, b, draws, i, acc) ==
    IF i >= b.batch_size \/ acc.err # "none" THEN acc
    ELSE simulate_lines(slf, b, draws, i + 1,
            append_line(acc, simulate_line(slf, acc.heap, b, i, draws[i + 1])))

\* line 89: the Batch returned, with the heap and the draws made
line_batch(b, r) ==
    [err |-> r.err, heap |-> r.heap, n_rand |-> r.n_rand, built |-> Len(r.res_imgs),
     batch |-> [imgs |-> r.res_imgs, gt_texts |-> r.res_gt_texts,
                batch_size |-> b.batch_size]]

\* _simulate_text_line: [err, heap, n_rand, batch]
simulate_text_line(slf, hp, b, draws) ==
    line_batch(b, simulate_lines(slf, b, draws, 0,
                    [err |-> "none", n_rand |-> 0, heap |-> hp,
                     res_imgs |-> <<>>, res_gt_texts |-> <<>>]))

(***************************************************************************)
(* Preprocessor.process_batch                                              *)
(***************************************************************************)
NoBatch == [imgs |-> <<>>, gt_texts |-> <<>>, batch_size |-> -1]

\* res_imgs grows by the image process_img returned
append_img(acc, r) == [heap |-> r.heap, res_imgs |-> Append(acc.res_imgs, r.ref)]

RECURSIVE process_imgs(_, _, _, _)
\* [self.process_img(img) for img in batch.imgs], from the k-th image on
process_imgs(slf, imgs, k, acc) ==
    IF k > Len(imgs) THEN acc
    ELSE process_imgs(slf, imgs, k + 1, append_img(acc, process_img(slf, acc.heap, imgs[k])))

\* line 112 reading the cap from the last image instead of the first
max_text_len_of_last(hp, res_imgs) == Rows(hp[res_imgs[Len(res_imgs)]]) \div 4

\* line 112; res_imgs[0] of an empty list raises IndexError
max_text_len_of(hp, res_imgs) == Rows(hp[res_imgs[1]]) \div 4

\* line 113
truncate_labels(gt_texts, max_text_len) ==
    [k \in 1..Len(gt_texts) |-> truncate_label(gt_texts[k], max_text_len)]

\* lines 112-114 with the images normalised
label_batch(b1, p) ==
    IF Len(p.res_imgs) = 0
    THEN [err |-> "IndexError", heap |-> p.heap, line |-> b1, out |-> NoBatch]
    ELSE [err |-> "none", heap |-> p.heap, line |-> b1,
          out |-> [imgs |-> p.res_imgs,
                   gt_texts |-> truncate_labels(b1.gt_texts,
                                                max_text_len_of(p.heap, p.res_imgs)),
                   batch_size |-> b1.batch_size]]

\* lines 111-114 on the batch b1 that enters normalisation
normalise_batch(slf, hp, b1) ==
    label_batch(b1, process_imgs(slf, b1.imgs, 1, [heap |-> hp, res_imgs |-> <<>>]))

\* lines 109-114 with the text lines simulated
normalise_lines(slf, s) ==
    IF s.err # "none"
    THEN [err |-> s.err, heap |-> s.heap, line |-> NoBatch, out |-> NoBatch,
          n_rand |-> s.n_rand, built |-> s.built]
    ELSE [n_rand |-> s.n_rand, built |-> s.built] @@ normalise_batch(slf, s.heap, s.batch)

\* process_batch: [err, heap, line, out] with n_rand, the number of
\* random.randint calls made, and built, the number of lines built
process_batch(slf, hp, b, draws) ==
    IF slf.line_mode
    THEN normalise_lines(slf, simulate_text_line(slf, hp, b, draws))
    ELSE [n_rand |-> 0, built |-> 0] @@ normalise_batch(slf, hp, b)

(***************************************************************************)
(* The inputs explored                                                     *)
(***************************************************************************)
\* a numpy array from its rows
array_of(rows) ==
    [shape |-> <<Len(rows), Len(rows[1])>>, dtype |-> "uint8", den |-> 1,
     px |-> [r \in 0..(Len(rows) - 1) |-> [c \in 0..(Len(rows[1]) - 1) |-> rows[r + 1][c + 1]]]]

\* two word images of different heights and widths
ImgA == array_of(<< <<0, 128, 255, 7>> >>)
ImgB == array_of(<< <<10>>, <<200>>, <<90>> >>)
SampleImgs == {ImgA, ImgB}
SampleTexts == {<<"a">>, <<"a", "a", "b">>}

\* what the loader hands over: None (a damaged file) or a word image
LoadedImgs == {[present |-> FALSE, value |-> np_zeros(<<0, 0>>)]}
              \cup {[present |-> TRUE, value |-> im] : im \in SampleImgs}

\* the positions of loaded that hold an image
PresentUpTo(loaded, k) == {m \in 1..k : loaded[m].present}

\* the heap and the batch of the loaded images and texts
LoadedHeap(loaded) ==
    LET pos == PresentUpTo(loaded, Len(loaded))
    IN  [a \in 1..Cardinality(pos) |->
            loaded[CHOOSE m \in pos : Cardinality(PresentUpTo(loaded, m)) = a].value]

LoadedBatch(loaded, texts) ==
    [imgs |-> [k \in 1..Len(loaded) |->
                 IF loaded[k].present THEN Cardinality(PresentUpTo(loaded, k)) ELSE None],
     gt_texts |-> texts, batch_size |-> Len(loaded)]

(***************************************************************************)
(* The pipeline: construct a Preprocessor, process the batch               *)
(***************************************************************************)
NoFrame == [name |-> "none"]

\* Preprocessor.__init__: [err, self]
init(a) ==
    IF ~init_asserts(a) THEN [err |-> "AssertionError", self |-> NoSelf]
    ELSE [err |-> "none",
          self |-> [img_size |-> a.img_size, padding |-> a.padding,
                    dynamic_width |-> a.dynamic_width,
                    data_augmentation |-> a.data_augmentation,
                    line_mode |-> a.line_mode]]

\* the word counts random.randint(1, 8) is explored to return when whole
\* batches are processed (every count of 1..8 is explored line by line in SpecLine)
DrawnNumWords == {1, 2, 3}

\* the draws of one call of process_batch
BatchDraws(slf, b, nws) ==
    IF slf.line_mode THEN [1..b.batch_size -> LineDraws(slf, nws)] ELSE {<<>>}

\* the state before the Preprocessor is constructed, the loader having made
\* a batch of texts among texts_of
InitWith(texts_of) ==
    /\ pc = "new"
    /\ args = NoSelf
    /\ self = NoSelf
    /\ \E n \in 0..MaxBatch :
         \E loaded \in [1..n -> LoadedImgs], texts \in [1..n -> texts_of] :
            /\ heap = LoadedHeap(loaded)
            /\ batch = LoadedBatch(loaded, texts)
            /\ input0 = [batch |-> LoadedBatch(loaded, texts), heap |-> LoadedHeap(loaded)]
    /\ line = NoBatch
    /\ rand = <<>>
    /\ rng = 0
    /\ out = NoBatch
    /\ err = "none"
    /\ calls = 0
    /\ fn = NoFrame

Init == InitWith(SampleTexts)

\* p = Preprocessor(img_size, padding, dynamic_width, data_augmentation, line_mode)
Construct ==
    /\ pc = "new"
    /\ \E a \in CtorArgs :
         /\ args' = a
         /\ self' = init(a).self
         /\ err' = init(a).err
         /\ pc' = IF init(a).err = "none" THEN "ready" ELSE "failed"
    /\ UNCHANGED <<heap, batch, input0, line, rand, rng, out, calls, fn>>

\* the arrays of the caller's batch: those an earlier call returned are no
\* longer referenced and have been freed
batch_arrays(hp, b) ==
    SubSeq(hp, 1, Cardinality({k \in 1..Len(b.imgs) : b.imgs[k] # None}))

\* p.process_batch(batch), the word counts drawn being among nws
ProcessBatchCall(nws) ==
    \E draws \in BatchDraws(self, batch, nws) :
        \E r \in {process_batch(self, batch_arrays(heap, batch), batch, draws)} :
            /\ heap' = r.heap
            /\ line' = r.line
            /\ out' = r.out
            /\ err' = r.err
            /\ rand' = SubSeq(draws, 1, r.built)
            /\ rng' = rng + r.n_rand
            /\ calls' = calls + 1
            /\ pc' = "done"
            /\ UNCHANGED <<args, self, batch, input0, fn>>

\* every batch flows through the pipeline once
ProcessBatch ==
    /\ pc = "ready"
    /\ ProcessBatchCall(DrawnNumWords)

Next == Construct \/ ProcessBatch

Spec == Init /\ [][Next]_vars

(***************************************************************************)
(* SpecRepeat: the caller hands the same batch to process_batch again      *)
(***************************************************************************)
\* the word counts and the texts explored when a batch is processed repeatedly
RepeatNumWords == {1, 2}
RepeatTexts == {<<"a", "a", "b">>}

InitRepeat == InitWith(RepeatTexts)

ProcessBatchAgain ==
    /\ pc \in {"ready", "done"}
    /\ calls < MaxCalls
    /\ ProcessBatchCall(RepeatNumWords)

NextRepeat == Construct \/ ProcessBatchAgain

SpecRepeat == InitRepeat /\ [][NextRepeat]_vars

(***************************************************************************)
(* SpecTruncate: _truncate_label called on its own                         *)
(***************************************************************************)
RECURSIVE TextsOfLen(_)
TextsOfLen(n) ==
    IF n = 0 THEN {<<>>}
    ELSE {Append(t, ch) : t \in TextsOfLen(n - 1), ch \in Alphabet}

Texts == UNION {TextsOfLen(n) : n \in 0..MaxLen}

\* the variables of the pipeline, idle while a function is called on its own
Idle ==
    /\ args = NoSelf
    /\ line = NoBatch
    /\ rand = <<>>
    /\ rng = 0
    /\ out = NoBatch
    /\ err = "none"
    /\ calls = 0

InitTruncate ==
    /\ pc = "fn"
    /\ self = NoSelf
    /\ heap = <<>>
    /\ batch = NoBatch
    /\ input0 = [batch |-> NoBatch, heap |-> <<>>]
    /\ Idle
    /\ \E text \in Texts, max_text_len \in (0 - MaxNeg)..MaxCap :
         fn = [name |-> "truncate_label", text |-> text,
               max_text_len |-> max_text_len, ret |-> <<>>]

\* Preprocessor._truncate_label(text, max_text_len)
TruncateLabel ==
    /\ pc = "fn"
    /\ fn.name = "truncate_label"
    /\ fn' = [fn EXCEPT !.ret = truncate_label(fn.text, fn.max_text_len)]
    /\ pc' = "fn_done"
    /\ UNCHANGED <<args, self, heap, batch, input0, line, rand, rng, out, err, calls>>

NextTruncate == TruncateLabel

SpecTruncate == InitTruncate /\ [][NextTruncate]_vars

(***************************************************************************)
(* SpecImg: process_img called on its own                                  *)
(***************************************************************************)
\* every image of rows x cols pixels with sampled intensities
ImagesOfShape(rows, cols) ==
    {[shape |-> <<rows, cols>>, dtype |-> "uint8", den |-> 1, px |-> px] :
        px \in [0..(rows - 1) -> [0..(cols - 1) -> PixelSamples]]}

SmallShapes == {sh \in (1..MaxPixels) \X (1..MaxPixels) : sh[1] * sh[2] <= MaxPixels}

SmallImages == UNION {ImagesOfShape(sh[1], sh[2]) : sh \in SmallShapes}

InitImg ==
    /\ pc = "fn"
    /\ \E a \in ValidArgs : self = init(a).self
    /\ batch = NoBatch
    /\ Idle
    /\ \/ /\ heap = <<>>
          /\ fn = [name |-> "process_img", img |-> None, ret |-> None]
       \/ \E im \in SmallImages :
          /\ heap = <<im>>
          /\ fn = [name |-> "process_img", img |-> 1, ret |-> None]
    /\ input0 = [batch |-> NoBatch, heap |-> heap]

\* p.process_img(img)
ProcessImg ==
    /\ pc = "fn"
    /\ fn.name = "process_img"
    /\ \E r \in {process_img(self, heap, fn.img)} :
         /\ heap' = r.heap
         /\ fn' = [fn EXCEPT !.ret = r.ref]
    /\ pc' = "fn_done"
    /\ UNCHANGED <<args, self, batch, input0, line, rand, rng, out, err, calls>>

NextImg == ProcessImg

SpecImg == InitImg /\ [][NextImg]_vars

(***************************************************************************)
(* SpecLine: one iteration of _simulate_text_line's loop over the batch,   *)
(* with every word count of 1..8                                           *)
(***************************************************************************)
InitLine ==
    /\ pc = "fn"
    /\ \E a \in ValidArgs :
         /\ a.line_mode /\ a.padding = 0 /\ ~a.dynamic_width /\ a.img_size = <<5, 2>>
         /\ self = init(a).self
    /\ \E n \in 1..MaxBatch :
         \E loaded \in [1..n -> LoadedImgs], texts \in [1..n -> SampleTexts] :
            /\ heap = LoadedHeap(loaded)
            /\ batch = LoadedBatch(loaded, texts)
            /\ input0 = [batch |-> LoadedBatch(loaded, texts), heap |-> LoadedHeap(loaded)]
            /\ \E i \in 0..(n - 1) :
                 fn = [name |-> "simulate_line", i |-> i,
                       d |-> [num_words |-> 0, seps |-> <<>>],
                       frame |-> [err |-> "none"]]
    /\ Idle

\* the body of "for i in range(batch.batch_size)" for i = fn.i
SimulateLine ==
    /\ pc = "fn"
    /\ fn.name = "simulate_line"
    /\ \E d \in LineDraws(self, NumWordsMin..NumWordsMax) :
         fn' = [fn EXCEPT !.d = d, !.frame = simulate_line(self, heap, batch, fn.i, d)]
    /\ pc' = "fn_done"
    /\ UNCHANGED <<args, self, heap, batch, input0, line, rand, rng, out, err, calls>>

NextLine == SimulateLine

SpecLine == InitLine /\ [][NextLine]_vars

(***************************************************************************)
(* The claims                                                              *)
(***************************************************************************)
\* the CTC cost of a text: 1 per character, 2 for a character equal to its
\* immediate predecessor
Cost(t) == Len(t) + Cardinality({k \in 2..Len(t) : t[k] = t[k - 1]})

Prefix(t, k) == SubSeq(t, 1, k)

\* ret is the longest prefix of text whose cost is at most max_len
LongestPrefixWithin(text, max_len, ret) ==
    /\ \E k \in 0..Len(text) :
         /\ ret = Prefix(text, k)
         /\ Cost(Prefix(text, k)) <= max_len
         /\ \A m \in (k + 1)..Len(text) : Cost(Prefix(text, m)) > max_len
    /\ (Cost(text) <= max_len => ret = text)

TruncateReturned == pc = "fn_done" /\ fn.name = "truncate_label"

\* C1 as stated: for every text and EVERY integer max_len, _truncate_label
\* returns the longest prefix of text whose cumulative CTC cost is <= max_len
\* (and the text itself when its whole cost is <= max_len).
C1_LongestPrefixEveryMaxLen ==
    TruncateReturned => LongestPrefixWithin(fn.text, fn.max_text_len, fn.ret)

\* C1 amended: for every text and every max_len >= 0, _truncate_label returns
\* the longest prefix of text whose cumulative CTC cost is <= max_len, the
\* text itself when its whole cost is <= max_len; for max_len < 0 no prefix
\* has such a cost and the empty text is returned.  truncate("aabb", 4) is
\* "aab" and truncate("abc", 10) is "abc".
C1_LongestPrefix ==
    TruncateReturned =>
        /\ fn.max_text_len >= 0 => LongestPrefixWithin(fn.text, fn.max_text_len, fn.ret)
        /\ fn.max_text_len < 0 => fn.ret = <<>>
        /\ (fn.text = <<"a", "a", "b", "b">> /\ fn.max_text_len = 4)
              => fn.ret = <<"a", "a", "b">>
        /\ (fn.text = <<"a", "b", "c">> /\ fn.max_text_len = 10)
              => fn.ret = <<"a", "b", "c">>

\* a text with repeated letters is cut where the doubled cost passes the cap
C1_Witness ==
    /\ TruncateReturned
    /\ fn.text = <<"a", "a", "b", "b">>
    /\ fn.max_text_len = 4
    /\ fn.ret = <<"a", "a", "b">>

\* the condition under which C3 says construction fails
RejectedArgs(a) ==
    \/ a.dynamic_width /\ a.data_augmentation
    \/ a.padding > 0 /\ ~a.dynamic_width

\* C3: constructing a Preprocessor fails exactly when (dynamic_width and
\* data_augmentation) or (padding > 0 and not dynamic_width); it fails at
\* construction, before any batch is processed, and every other combination
\* constructs with the fields equal to the arguments.
C3_ConstructionFailsExactly ==
    pc # "new" /\ pc # "fn" /\ pc # "fn_done" =>
        /\ pc = "failed" <=> RejectedArgs(args)
        /\ pc = "failed" =>
              /\ err = "AssertionError"
              /\ calls = 0
              /\ out = NoBatch
              /\ ~ENABLED ProcessBatch
        /\ pc \in {"ready", "done"} =>
              /\ self.img_size = args.img_size
              /\ self.padding = args.padding
              /\ self.dynamic_width = args.dynamic_width
              /\ self.data_augmentation = args.data_augmentation
              /\ self.line_mode = args.line_mode

\* padding without dynamic width is refused, nothing else being wrong
C3_Witness ==
    /\ pc = "failed"
    /\ args.padding > 0
    /\ ~args.dynamic_width
    /\ ~args.data_augmentation

ProcessImgReturned == pc = "fn_done" /\ fn.name = "process_img"

\* the image process_img was given, the blank canvas of target_height rows
\* by target_width columns standing in for an absent one
GivenImage ==
    IF fn.img = None
    THEN [shape |-> <<self.img_size[2], self.img_size[1]>>,
          px |-> [r \in 0..(self.img_size[2] - 1) |->
                    [c \in 0..(self.img_size[1] - 1) |-> 0]]]
    ELSE [shape |-> input0.heap[fn.img].shape, px |-> input0.heap[fn.img].px]

Returned == pc = "done" /\ err = "none"

\* C2 as stated: for every batch with len(imgs) = len(gt_texts) = batch_size,
\* batch_size 0 included, in line mode and in word mode, process_batch returns
\* a batch of the same batch_size whose image list and text list have exactly
\* batch_size elements.
C2_BatchSizePreserved ==
    (/\ pc = "done"
     /\ Len(batch.imgs) = batch.batch_size
     /\ Len(batch.gt_texts) = batch.batch_size) =>
        /\ err = "none"
        /\ out.batch_size = batch.batch_size
        /\ Len(out.imgs) = batch.batch_size
        /\ Len(out.gt_texts) = batch.batch_size

\* the tensor process_img makes of the blank canvas: target_width rows by
\* target_height columns of -0.5
IsBlankFallback(a) ==
    /\ a.shape = <<self.img_size[1], self.img_size[2]>>
    /\ a.den = 510
    /\ \A x \in 0..(self.img_size[1] - 1), y \in 0..(self.img_size[2] - 1) : a.px[x][y] = -255

\* C4 as stated: a missing (None) image at any position of the batch never
\* surfaces an error to the caller of process_batch, line mode enabled or
\* disabled: the call completes and the absent image is replaced by the
\* blank-canvas fallback.
C4_MissingImageRecovered ==
    (pc = "done" /\ \E k \in 1..Len(batch.imgs) : batch.imgs[k] = None) =>
        /\ err = "none"
        /\ ~self.line_mode =>
              \A k \in 1..Len(batch.imgs) :
                 batch.imgs[k] = None => IsBlankFallback(heap[out.imgs[k]])

\* the number of columns of the k-th image entering normalisation
WidthEntering(k) ==
    IF line.imgs[k] = None THEN self.img_size[1] ELSE Cols(heap[line.imgs[k]])

\* the transcript of line i (0-based) of n words: the texts of the samples
\* (i + j) mod batch_size, j = 0..n-1, each after the first following one space
IsTranscript(t, b, i, n) ==
    LET word(j) == b.gt_texts[((i + j) % b.batch_size) + 1]
        RECURSIVE start(_)
        start(j) == IF j = 0 THEN 0 ELSE start(j - 1) + Len(word(j - 1)) + 1
    IN  /\ Len(t) = start(n) - 1
        /\ \A j \in 0..(n - 1) :
             /\ SubSeq(t, start(j) + 1, start(j) + Len(word(j))) = word(j)
             /\ j > 0 => t[start(j)] = " "

\* C5: for every non-empty batch every output text i is
\* _truncate_label(text_i, cap) with the one cap = (number of columns of the
\* first image entering normalisation) // 4, whatever the other images'
\* dimensions; in line mode the first image is the first line canvas and the
\* texts truncated are the concatenated transcripts.
C5_SharedCapFromFirstImage ==
    Returned =>
        LET cap == WidthEntering(1) \div 4
        IN  /\ batch.batch_size > 0
            /\ Len(out.gt_texts) = batch.batch_size
            /\ \A k \in 1..batch.batch_size :
                 /\ out.gt_texts[k] = truncate_label(line.gt_texts[k], cap)
                 /\ self.line_mode =>
                      IsTranscript(line.gt_texts[k], batch, k - 1, rand[k].num_words)
                 /\ ~self.line_mode => line.gt_texts[k] = batch.gt_texts[k]
            /\ cap = Rows(heap[out.imgs[1]]) \div 4

\* a later text was cut by the first image's cap where its own image's cap
\* would have cut it elsewhere
C5_Witness ==
    /\ Returned
    /\ batch.batch_size = 2
    /\ WidthEntering(1) \div 4 # WidthEntering(2) \div 4
    /\ out.gt_texts[2] # line.gt_texts[2]
    /\ out.gt_texts[2] # truncate_label(line.gt_texts[2], WidthEntering(2) \div 4)

InputRefs == 1..Len(input0.heap)

\* C8: process_batch and _simulate_text_line leave their input unchanged: the
\* batch's image list, every pixel of every input image, its text list and
\* its batch_size are what they were before the call, and no returned image
\* (line canvas or normalised tensor) shares storage with an input image.
C8_InputUnchanged ==
    calls > 0 =>
        /\ batch = input0.batch
        /\ Len(heap) >= Len(input0.heap)
        /\ \A a \in InputRefs : heap[a] = input0.heap[a]
        /\ \A k \in 1..Len(out.imgs) : out.imgs[k] \notin InputRefs
        /\ \A k \in 1..Len(line.imgs) :
             self.line_mode => line.imgs[k] \notin InputRefs
        /\ \A k, m \in 1..Len(out.imgs) : k # m => out.imgs[k] # out.imgs[m]

\* two present word images went through word mode and through line mode
C8_Witness ==
    /\ Returned
    /\ batch.batch_size = 2
    /\ batch.imgs[1] # None
    /\ batch.imgs[2] # None
    /\ self.line_mode
    /\ heap[out.imgs[1]] # heap[line.imgs[1]]
\* the images and the texts the last process_batch call returned, by value
OutValue ==
    [imgs |-> [k \in 1..Len(out.imgs) |-> heap[out.imgs[k]]],
     gt_texts |-> out.gt_texts, batch_size |-> out.batch_size]

InputIntact ==
    /\ batch = input0.batch
    /\ \A a \in InputRefs : heap[a] = input0.heap[a]

LineBuilt == pc = "fn_done" /\ fn.name = "simulate_line" /\ fn.frame.err = "none"

\* the five-fold repetition of a text, separated by single spaces
FiveTimes(t) == t \o <<" ">> \o t \o <<" ">> \o t \o <<" ">> \o t \o <<" ">> \o t

\* C6: for batch position i the line is built from the samples at indices
\* (i + j) mod batch_size, j = 0..n-1 in that order, n = 5 without
\* augmentation and 1 <= n <= 8 with it; the transcript is those samples'
\* texts joined by single spaces and the same samples' images are selected
\* for pasting.  With batch_size = 1 and no augmentation the single word is
\* used 5 times.
C6_CyclicSelection ==
    LineBuilt =>
        LET n == fn.frame.num_words
            bs == batch.batch_size
        IN  /\ ~self.data_augmentation => n = 5
            /\ self.data_augmentation => (1 <= n /\ n <= 8)
            /\ Len(fn.frame.sel_imgs) = n
            /\ \A j \in 0..(n - 1) :
                 fn.frame.sel_imgs[j + 1] = batch.imgs[((fn.i + j) % bs) + 1]
            /\ IsTranscript(fn.frame.curr_gt, batch, fn.i, n)
            /\ (bs = 1 /\ ~self.data_augmentation) =>
                 /\ fn.frame.sel_imgs = [j \in 1..5 |-> batch.imgs[1]]
                 /\ fn.frame.curr_gt = FiveTimes(batch.gt_texts[1])

\* the second element's line wraps round to the first element and back
C6_Witness ==
    /\ LineBuilt
    /\ batch.batch_size = 2
    /\ fn.i = 1
    /\ fn.frame.num_words = 3
    /\ batch.gt_texts = << <<"a">>, <<"a", "a", "b">> >>
    /\ fn.frame.curr_gt = <<"a", "a", "b", " ", "a", " ", "a", "a", "b">>
    /\ fn.frame.sel_imgs = <<batch.imgs[2], batch.imgs[1], batch.imgs[2]>>

\* the k-th word image (1-based) of the line of batch position fn.i
WordImg(k) == heap[batch.imgs[((fn.i + k - 1) % batch.batch_size) + 1]]

RECURSIVE WordStart(_)
\* the column where the k-th word starts: the first at 0, each later one a
\* separator width after the previous word ends
WordStart(k) ==
    IF k = 1 THEN 0
    ELSE WordStart(k - 1) + Cols(WordImg(k - 1)) + fn.d.seps[k - 1]

\* the paste windows [top, left, rows, cols] of the line's n words
Windows(n, h) ==
    [k \in 1..n |-> [top |-> (h - Rows(WordImg(k))) \div 2, left |-> WordStart(k),
                     rows |-> Rows(WordImg(k)), cols |-> Cols(WordImg(k)),
                     px |-> WordImg(k).px]]

InWindow(win, r, c) ==
    /\ win.top <= r /\ r < win.top + win.rows
    /\ win.left <= c /\ c < win.left + win.cols

\* C10: the canvas is max word height by sum of word widths plus the n - 1
\* separator widths (each 30 without augmentation, each in 20..50 with it);
\* the first word starts at column 0, each later word one separator width
\* after the previous word ends, the final cursor equals the canvas width;
\* each word occupies rows (h - word_height) // 2 onwards; every window lies
\* inside the canvas, distinct words' windows do not overlap, the window
\* holds the word's pixels and every pixel outside all windows is 255.
C10_LineGeometry ==
    LineBuilt =>
        LET f == fn.frame
            n == fn.frame.num_words
        IN  \E wins \in {Windows(n, f.h)} :
            /\ Len(fn.d.seps) = n - 1
            /\ \A k \in 1..(n - 1) :
                 /\ ~self.data_augmentation => fn.d.seps[k] = 30
                 /\ self.data_augmentation => (20 <= fn.d.seps[k] /\ fn.d.seps[k] <= 50)
            /\ \A k \in 1..n : f.h >= wins[k].rows
            /\ \E k \in 1..n : f.h = wins[k].rows
            /\ f.w = wins[n].left + wins[n].cols
            /\ f.x = f.w
            /\ f.target.shape = <<f.h, f.w>>
            /\ \A k \in 1..n :
                 /\ 0 <= wins[k].top /\ wins[k].top + wins[k].rows <= f.h
                 /\ 0 <= wins[k].left /\ wins[k].left + wins[k].cols <= f.w
                 /\ k < n => wins[k].left + wins[k].cols < wins[k + 1].left
                 /\ \A r \in 0..(wins[k].rows - 1), c \in 0..(wins[k].cols - 1) :
                      f.target.px[wins[k].top + r][wins[k].left + c] = wins[k].px[r][c]
            /\ \A r \in 0..(f.h - 1), c \in 0..(f.w - 1) :
                 \/ f.target.px[r][c] = 255
                 \/ \E k \in 1..n : InWindow(wins[k], r, c)

\* eight words with separators of both extremes; the one-row word is centred
\* in the three-row canvas
C10_Witness ==
    /\ LineBuilt
    /\ fn.frame.num_words = 8
    /\ \E k \in 1..7 : fn.d.seps[k] = 20
    /\ \E k \in 1..7 : fn.d.seps[k] = 50
    /\ fn.frame.h = 3
    /\ Rows(WordImg(1)) = 1
    /\ fn.frame.target.px[0][0] = 255
    /\ fn.frame.target.px[1][0] = 0

====
